---- MODULE Spec2Model ----
(***************************************************************************)
(* Model of load-test/load_test.py: the load-test driver of Event Service. *)
(*                                                                         *)
(* main() checks the service health, runs the four load scenarios one      *)
(* after the other through the locust command, evaluates the SLA of each   *)
(* from the statistics file locust leaves behind, writes a final report    *)
(* and exits.  The collaborators (the health and metrics endpoints, the    *)
(* locust process, the statistics file) are the environment: each of       *)
(* their answers is drawn from the outcomes the code distinguishes.        *)
(*                                                                         *)
(* Environment assumption: a statistics file that exists holds an          *)
(* 'Aggregated' row with the columns analyze_results reads.                *)
(*                                                                         *)
(* Failure rates are integers in units of 1/1000 (0.01 is 10); median      *)
(* response times are integers in milliseconds.                            *)
(***************************************************************************)
EXTENDS Integers, Sequences, FiniteSets, TLC

VARIABLES
    pc,              \* position of the process in main / run_performance_test
    idx,             \* position of the for loop in test_scenarios (1-based)
    all_passed,      \* run_performance_test: all_passed
    success,         \* main: success (None until run_performance_test returns)
    metrics_before,  \* run_performance_test: metrics_before
    statsFile,       \* load-test/results/load_test_stats.csv
    locustProc,      \* the scenario whose locust child process is alive, 0 if none
    report,          \* load-test/results/final_report.json as written by this run
    exitCode,        \* exit status of the process (None while it runs)
    log,             \* the operations performed so far, in order
    response,        \* check_health: the answer of the health endpoint
    last_analysis    \* the statistics analyze_results read last, and what it returned

\* locustfile.py, inside one locust process
VARIABLES
    userState,       \* per EventServiceUser: "created", "running", "in_request", "stopped"
    task,            \* per user: the task whose request is in flight
    attempts,        \* per user: POSTs made by the task picked last
    num_posts,       \* POSTs made to /api/v1/events by all users
    num_requests,    \* locust statistics: requests reported
    num_failures,    \* locust statistics: requests reported as failures
    last_report      \* the request event fired last

driverVars == <<pc, idx, all_passed, success, metrics_before, statsFile, locustProc,
                report, exitCode, log, response, last_analysis>>

userVars == <<userState, task, attempts, num_posts, num_requests, num_failures,
              last_report>>

vars == <<driverVars, userVars>>

None == "None"

-----------------------------------------------------------------------------
(* Configuration written in the source *)

test_scenarios ==
    << [name |-> "Low Load",    users |-> 50,   spawn_rate |-> 5,   duration |-> "30s"],
       [name |-> "Medium Load", users |-> 200,  spawn_rate |-> 20,  duration |-> "1m"],
       [name |-> "High Load",   users |-> 500,  spawn_rate |-> 50,  duration |-> "2m"],
       [name |-> "Peak Load",   users |-> 1000, spawn_rate |-> 100, duration |-> "30s"] >>

report_scenarios ==
    << [name |-> "Low Load",    target |-> "50 users, 5/s spawn"],
       [name |-> "Medium Load", target |-> "200 users, 20/s spawn"],
       [name |-> "High Load",   target |-> "500 users, 50/s spawn"],
       [name |-> "Peak Load",   target |-> "1000 users, 100/s spawn"] >>

NumScenarios == Len(test_scenarios)

SlaMaxFailureRate == 10      \* 0.01, in units of 1/1000
SlaMaxMedianMs == 500
StabilizationSeconds == 10
HttpOk == 200

-----------------------------------------------------------------------------
(* The environment's answers *)

\* GET /api/v1/health: a transport error, or a status code and a body.
HealthResponses ==
    { [error |-> TRUE, status_code |-> 0, body |-> "none"] } \cup
    { [error |-> FALSE, status_code |-> s, body |-> b] :
        s \in {HttpOk, 503},
        b \in {"json_status_healthy", "json_status_unhealthy",
               "json_no_status", "not_json"} }

\* GET /api/v1/metrics
MetricsResponses ==
    { [error |-> TRUE, status_code |-> 0, text |-> ""],
      [error |-> FALSE, status_code |-> HttpOk, text |-> "metrics"],
      [error |-> FALSE, status_code |-> 503, text |-> "unavailable"] }

\* The statistics of the 'Aggregated' row of load_test_stats.csv
FailureRateValues == {SlaMaxFailureRate - 1, SlaMaxFailureRate, SlaMaxFailureRate + 1}
MedianValues == {SlaMaxMedianMs - 1, SlaMaxMedianMs, SlaMaxMedianMs + 1}

NoStatsFile == [exists |-> FALSE, failure_rate |-> 0, median |-> 0]

NoAnalysis == [done |-> FALSE, file |-> NoStatsFile, passed |-> FALSE]

NoResponse == [error |-> FALSE, status_code |-> 0, body |-> "none"]

PresentStatsFiles ==
    { [exists |-> TRUE, failure_rate |-> f, median |-> m] :
        f \in FailureRateValues, m \in MedianValues }

StatsFiles == {NoStatsFile} \cup PresentStatsFiles

\* Exit codes of the locust child process
LocustReturnCodes == {0, 1}

-----------------------------------------------------------------------------
(* Functions *)

Event(e, stage, val) == [ev |-> e, stage |-> stage, val |-> val]

BoolStr(b) == IF b THEN "True" ELSE "False"

\* check_health(): the outcomes the call can have on a response.  "raise" is an
\* exception that is not a requests.exceptions.RequestException and leaves
\* check_health.  response.json() on a body that is not JSON raises an error
\* that is a RequestException in some versions of requests and a plain
\* ValueError in others.
check_health(resp) ==
    IF resp.error THEN {"False"}
    ELSE IF resp.status_code = HttpOk
         THEN CASE resp.body = "not_json" -> {"False", "raise"}
                [] resp.body = "json_no_status" -> {"raise"}
                [] OTHER -> {"True"}
         ELSE {"False"}

\* get_metrics()
get_metrics(resp) ==
    IF resp.error THEN ""
    ELSE IF resp.status_code = HttpOk THEN resp.text ELSE ""

\* analyze_results() with the SLA comparisons taken as >= instead of >
analyze_results_StrictBounds(file) ==
    IF file.exists
    THEN IF file.failure_rate >= SlaMaxFailureRate THEN FALSE
         ELSE IF file.median >= SlaMaxMedianMs THEN FALSE
         ELSE TRUE
    ELSE FALSE

\* analyze_results() with a latency limit that is loosened scenario by scenario
analyze_results_StageScaled(file) ==
    IF file.exists
    THEN IF file.failure_rate > SlaMaxFailureRate THEN FALSE
         ELSE IF file.median > SlaMaxMedianMs + (idx - 1) THEN FALSE
         ELSE TRUE
    ELSE FALSE

\* analyze_results() taking missing statistics for a pass
analyze_results_MissingPasses(file) ==
    IF file.exists
    THEN IF file.failure_rate > SlaMaxFailureRate THEN FALSE
         ELSE IF file.median > SlaMaxMedianMs THEN FALSE
         ELSE TRUE
    ELSE TRUE

\* analyze_results()
analyze_results(file) ==
    IF file.exists
    THEN IF file.failure_rate > SlaMaxFailureRate THEN FALSE
         ELSE IF file.median > SlaMaxMedianMs THEN FALSE
         ELSE TRUE
    ELSE FALSE

-----------------------------------------------------------------------------
(* The users of locustfile.py *)

NumUsers == 2       \* users alive in the locust process
MaxPosts == 3       \* requests the users make before the run time is over

Users == 1..NumUsers

HttpAccepted == 202

\* The @task methods of EventServiceUser: the weight and what each passes to
\* send_event (amount 0 stands for None, 9999 for 99.99)
Tasks ==
    { [name |-> "send_low_priority_event", weight |-> 5,
       event_type |-> "click", priority |-> 1, amount |-> 0],
      [name |-> "send_medium_priority_event", weight |-> 3,
       event_type |-> "login", priority |-> 5, amount |-> 0],
      [name |-> "send_high_priority_event", weight |-> 1,
       event_type |-> "purchase", priority |-> 9, amount |-> 9999] }

NoTask == [event_type |-> "none", priority |-> 0, payload |-> "none"]

\* send_event: the payload put into the request body
send_event_payload(event_type, priority, amount) ==
    [event_type |-> event_type,
     priority |-> priority,
     payload |-> IF event_type = "purchase" /\ amount # 0 THEN "item_amount_currency"
                 ELSE IF event_type = "click" THEN "button_page"
                 ELSE "empty"]

\* What self.client.post hands to the with block: a response with its status
\* code, or, on a transport error, a response with status code 0 and the error
EventResponses ==
    { [status_code |-> HttpAccepted, exception |-> FALSE],
      [status_code |-> HttpOk, exception |-> FALSE],
      [status_code |-> 500, exception |-> FALSE],
      [status_code |-> 0, exception |-> TRUE] }

NoReport == [user |-> 0, status_code |-> 0, exception |-> FALSE, failure |-> FALSE]

InitUsers ==
    /\ userState = [u \in Users |-> "created"]
    /\ task = [u \in Users |-> NoTask]
    /\ attempts = [u \in Users |-> 0]
    /\ num_posts = 0
    /\ num_requests = 0
    /\ num_failures = 0
    /\ last_report = NoReport

-----------------------------------------------------------------------------
(* The process *)

Init ==
    /\ pc = "check_health"
    /\ idx = 0
    /\ all_passed = None
    /\ success = None
    /\ metrics_before = None
    /\ statsFile \in StatsFiles
    /\ locustProc = 0
    /\ report = None
    /\ exitCode = None
    /\ log = << >>
    /\ response = NoResponse
    /\ last_analysis = NoAnalysis
    /\ InitUsers

\* main without the exit on a failed health check: the result is only logged
MainCheckHealth_NoExit ==
    /\ pc = "check_health"
    /\ \E resp \in HealthResponses : \E r \in check_health(resp) :
          /\ response' = resp
          /\ log' = Append(log, Event("check_health", 0, r))
          /\ IF r \in {"True", "False"}
             THEN /\ pc' = "for"
                  /\ all_passed' = TRUE
                  /\ idx' = 1
                  /\ exitCode' = exitCode
             ELSE /\ pc' = "exited"
                  /\ exitCode' = 1
                  /\ UNCHANGED <<all_passed, idx>>
    /\ UNCHANGED <<success, metrics_before, statsFile, locustProc, report>>
    /\ UNCHANGED <<last_analysis, userVars>>

\* main: if not check_health(): sys.exit(1); otherwise run_performance_test()
\* is entered and all_passed = True.
MainCheckHealth ==
    /\ pc = "check_health"
    /\ \E resp \in HealthResponses : \E r \in check_health(resp) :
          /\ response' = resp
          /\ log' = Append(log, Event("check_health", 0, r))
          /\ IF r = "True"
             THEN /\ pc' = "for"
                  /\ all_passed' = TRUE
                  /\ idx' = 1
                  /\ exitCode' = exitCode
             ELSE /\ pc' = "exited"
                  /\ exitCode' = 1
                  /\ UNCHANGED <<all_passed, idx>>
    /\ UNCHANGED <<success, metrics_before, statsFile, locustProc, report>>
    /\ UNCHANGED <<last_analysis, userVars>>

\* for scenario in test_scenarios: the next scenario is taken
ForScenario ==
    /\ pc = "for"
    /\ idx <= NumScenarios
    /\ pc' = "get_metrics"
    /\ UNCHANGED <<idx, all_passed, success, metrics_before, statsFile,
                   locustProc, report, exitCode, log>>
    /\ UNCHANGED <<response, last_analysis, userVars>>

\* the loop is exhausted: return all_passed; main: success = ...
ReturnAllPassed ==
    /\ pc = "for"
    /\ idx > NumScenarios
    /\ success' = all_passed
    /\ pc' = "report"
    /\ UNCHANGED <<idx, all_passed, metrics_before, statsFile, locustProc,
                   report, exitCode, log>>
    /\ UNCHANGED <<response, last_analysis, userVars>>

\* get_metrics without the try: a transport error ends the process
GetMetrics_RaiseOnError ==
    /\ pc = "get_metrics"
    /\ \E resp \in MetricsResponses :
          IF resp.error
          THEN /\ pc' = "exited"
               /\ exitCode' = 1
               /\ UNCHANGED <<metrics_before, log>>
          ELSE /\ metrics_before' = get_metrics(resp)
               /\ log' = Append(log, Event("get_metrics", idx, ""))
               /\ pc' = "run_locust"
               /\ UNCHANGED exitCode
    /\ UNCHANGED <<idx, all_passed, success, statsFile, locustProc, report>>
    /\ UNCHANGED <<response, last_analysis, userVars>>

\* metrics_before = get_metrics()
GetMetrics ==
    /\ pc = "get_metrics"
    /\ \E resp \in MetricsResponses : metrics_before' = get_metrics(resp)
    /\ log' = Append(log, Event("get_metrics", idx, ""))
    /\ pc' = "run_locust"
    /\ UNCHANGED <<idx, all_passed, success, statsFile, locustProc, report, exitCode>>
    /\ UNCHANGED <<response, last_analysis, userVars>>

\* run_locust starting the process without waiting for it (Popen for run):
\* the loop goes on while the process is alive
RunLocustLaunch_NoWait ==
    /\ pc = "run_locust"
    /\ \/ /\ locustProc' = idx
          /\ log' = Append(log, Event("launch", idx, test_scenarios[idx].name))
          /\ pc' = "for"
          /\ idx' = idx + 1
          /\ UNCHANGED all_passed
       \/ /\ log' = Append(log, Event("not_found", idx, test_scenarios[idx].name))
          /\ all_passed' = FALSE
          /\ idx' = idx + 1
          /\ pc' = "for"
          /\ UNCHANGED locustProc
    /\ UNCHANGED <<success, metrics_before, statsFile, report, exitCode>>
    /\ UNCHANGED <<response, last_analysis, userVars>>

\* run_locust: subprocess.run(cmd) starts the locust process, or raises
\* FileNotFoundError, on which run_locust returns False and the else branch
\* of the loop body runs.
RunLocustLaunch ==
    /\ pc = "run_locust"
    /\ \/ /\ locustProc' = idx
          /\ log' = Append(log, Event("launch", idx, test_scenarios[idx].name))
          /\ pc' = "locust_running"
          /\ UNCHANGED <<idx, all_passed>>
       \/ /\ log' = Append(log, Event("not_found", idx, test_scenarios[idx].name))
          /\ all_passed' = FALSE
          /\ idx' = idx + 1
          /\ pc' = "for"
          /\ UNCHANGED locustProc
    /\ UNCHANGED <<success, metrics_before, statsFile, report, exitCode>>
    /\ UNCHANGED <<response, last_analysis, userVars>>

\* the loop body with all_passed = True after a load run that succeeded
LocustExit_ResetOnSuccess ==
    /\ pc = "locust_running"
    /\ \E rc \in LocustReturnCodes : \E written \in {statsFile} \cup PresentStatsFiles :
          /\ statsFile' = written
          /\ locustProc' = 0
          /\ log' = Append(log, Event("exit", idx, BoolStr(rc = 0)))
          /\ IF rc = 0
             THEN /\ pc' = "analyze"
                  /\ all_passed' = TRUE
                  /\ UNCHANGED idx
             ELSE /\ all_passed' = FALSE
                  /\ idx' = idx + 1
                  /\ pc' = "for"
    /\ UNCHANGED <<success, metrics_before, report, exitCode>>
    /\ UNCHANGED <<response, last_analysis, userVars>>

\* the loop body analyzing the results whatever run_locust returned
LocustExit_AlwaysAnalyze ==
    /\ pc = "locust_running"
    /\ \E rc \in LocustReturnCodes : \E written \in {statsFile} \cup PresentStatsFiles :
          /\ statsFile' = written
          /\ locustProc' = 0
          /\ log' = Append(log, Event("exit", idx, BoolStr(rc = 0)))
          /\ pc' = "analyze"
          /\ all_passed' = IF rc = 0 THEN all_passed ELSE FALSE
          /\ UNCHANGED idx
    /\ UNCHANGED <<success, metrics_before, report, exitCode>>
    /\ UNCHANGED <<response, last_analysis, userVars>>

\* subprocess.run returns when the locust process has exited; run_locust
\* returns result.returncode == 0.  The process may have written the statistics.
LocustExit ==
    /\ pc = "locust_running"
    /\ \E rc \in LocustReturnCodes : \E written \in {statsFile} \cup PresentStatsFiles :
          /\ statsFile' = written
          /\ locustProc' = 0
          /\ log' = Append(log, Event("exit", idx, BoolStr(rc = 0)))
          /\ IF rc = 0
             THEN /\ pc' = "analyze"
                  /\ UNCHANGED <<idx, all_passed>>
             ELSE /\ all_passed' = FALSE
                  /\ idx' = idx + 1
                  /\ pc' = "for"
    /\ UNCHANGED <<success, metrics_before, report, exitCode>>
    /\ UNCHANGED <<response, last_analysis, userVars>>

\* the loop body leaving the loop on an SLA failure (a break after all_passed = False)
AnalyzeResults_BreakOnFailure ==
    /\ pc = "analyze"
    /\ LET passed == analyze_results(statsFile) IN
          /\ all_passed' = IF ~passed THEN FALSE ELSE all_passed
          /\ log' = Append(log, Event("analyze", idx, BoolStr(passed)))
          /\ last_analysis' = [done |-> TRUE, file |-> statsFile, passed |-> passed]
          /\ IF passed
             THEN pc' = "sleep" /\ idx' = idx
             ELSE pc' = "for" /\ idx' = NumScenarios + 1
    /\ UNCHANGED <<success, metrics_before, statsFile, locustProc, report, exitCode>>
    /\ UNCHANGED <<response, userVars>>

\* the loop body with all_passed = analyze_results(): the last result wins
AnalyzeResults_Overwrite ==
    /\ pc = "analyze"
    /\ LET passed == analyze_results(statsFile) IN
          /\ all_passed' = passed
          /\ log' = Append(log, Event("analyze", idx, BoolStr(passed)))
          /\ last_analysis' = [done |-> TRUE, file |-> statsFile, passed |-> passed]
    /\ pc' = "sleep"
    /\ UNCHANGED <<idx, success, metrics_before, statsFile, locustProc, report, exitCode>>
    /\ UNCHANGED <<response, userVars>>

\* if not analyze_results(): all_passed = False
AnalyzeResults ==
    /\ pc = "analyze"
    /\ LET passed == analyze_results(statsFile) IN
          /\ all_passed' = IF ~passed THEN FALSE ELSE all_passed
          /\ log' = Append(log, Event("analyze", idx, BoolStr(passed)))
          /\ last_analysis' = [done |-> TRUE, file |-> statsFile, passed |-> passed]
    /\ pc' = "sleep"
    /\ UNCHANGED <<idx, success, metrics_before, statsFile, locustProc, report, exitCode>>
    /\ UNCHANGED <<response, userVars>>

\* time.sleep(10), the end of the loop body
Stabilize ==
    /\ pc = "sleep"
    /\ log' = Append(log, Event("sleep", idx, ToString(StabilizationSeconds)))
    /\ idx' = idx + 1
    /\ pc' = "for"
    /\ UNCHANGED <<all_passed, success, metrics_before, statsFile, locustProc,
                   report, exitCode>>
    /\ UNCHANGED <<response, last_analysis, userVars>>

\* main exiting on failure before the report is dumped
WriteReport_ExitBeforeWrite ==
    /\ pc = "report"
    /\ IF success
       THEN /\ report' = [success |-> success, test_scenarios |-> report_scenarios]
            /\ log' = Append(log, Event("report", 0, BoolStr(success)))
            /\ pc' = "final"
            /\ UNCHANGED exitCode
       ELSE /\ exitCode' = 1
            /\ pc' = "exited"
            /\ UNCHANGED <<report, log>>
    /\ UNCHANGED <<idx, all_passed, success, metrics_before, statsFile, locustProc>>
    /\ UNCHANGED <<response, last_analysis, userVars>>

\* main: the report is built and dumped to final_report.json
WriteReport ==
    /\ pc = "report"
    /\ report' = [success |-> success, test_scenarios |-> report_scenarios]
    /\ log' = Append(log, Event("report", 0, BoolStr(success)))
    /\ pc' = "final"
    /\ UNCHANGED <<idx, all_passed, success, metrics_before, statsFile,
                   locustProc, exitCode>>
    /\ UNCHANGED <<response, last_analysis, userVars>>

\* main without the sys.exit(1) of the else branch
MainExit_AlwaysZero ==
    /\ pc = "final"
    /\ exitCode' = 0
    /\ pc' = "exited"
    /\ UNCHANGED <<idx, all_passed, success, metrics_before, statsFile,
                   locustProc, report, log>>
    /\ UNCHANGED <<response, last_analysis, userVars>>

\* main: if success: (main returns) else: sys.exit(1)
MainExit ==
    /\ pc = "final"
    /\ exitCode' = IF success THEN 0 ELSE 1
    /\ pc' = "exited"
    /\ UNCHANGED <<idx, all_passed, success, metrics_before, statsFile,
                   locustProc, report, log>>
    /\ UNCHANGED <<response, last_analysis, userVars>>

Next ==
    \/ MainCheckHealth
    \/ ForScenario
    \/ ReturnAllPassed
    \/ GetMetrics
    \/ RunLocustLaunch
    \/ LocustExit
    \/ AnalyzeResults
    \/ Stabilize
    \/ WriteReport
    \/ MainExit

Spec == Init /\ [][Next]_vars

\* Every call the process blocks on returns: the requests have timeouts, locust
\* runs with --run-time, the sleep is finite.
FairSpec == Spec /\ WF_vars(Next)

-----------------------------------------------------------------------------
(* The users: one locust process running locustfile.py *)

\* on_start
OnStart(u) ==
    /\ userState[u] = "created"
    /\ userState' = [userState EXCEPT ![u] = "running"]
    /\ UNCHANGED <<task, attempts, num_posts, num_requests, num_failures, last_report>>
    /\ UNCHANGED driverVars

\* a task is picked after the wait time and calls send_event, which builds
\* the payload and makes the POST
SendEvent(u) ==
    /\ userState[u] = "running"
    /\ num_posts < MaxPosts
    /\ \E t \in Tasks :
          task' = [task EXCEPT ![u] = send_event_payload(t.event_type, t.priority, t.amount)]
    /\ attempts' = [attempts EXCEPT ![u] = 1]
    /\ num_posts' = num_posts + 1
    /\ userState' = [userState EXCEPT ![u] = "in_request"]
    /\ UNCHANGED <<num_requests, num_failures, last_report>>
    /\ UNCHANGED driverVars

\* the with block marking every status below 400 a success
ClassifyResponse_AnyGoodStatus(u) ==
    /\ userState[u] = "in_request"
    /\ \E r \in EventResponses :
          LET failed == ~(r.status_code > 0 /\ r.status_code < 400) IN
          /\ num_requests' = num_requests + 1
          /\ num_failures' = IF failed THEN num_failures + 1 ELSE num_failures
          /\ last_report' = [user |-> u, status_code |-> r.status_code,
                              exception |-> r.exception, failure |-> failed]
    /\ userState' = [userState EXCEPT ![u] = "running"]
    /\ task' = [task EXCEPT ![u] = NoTask]
    /\ UNCHANGED <<attempts, num_posts>>
    /\ UNCHANGED driverVars

\* the with block raising on a status other than 202 (nothing is reported,
\* the exception leaves the task and the user is over)
ClassifyResponse_RaiseOnFailure(u) ==
    /\ userState[u] = "in_request"
    /\ \E r \in EventResponses :
          LET failed == r.status_code # HttpAccepted IN
          /\ num_requests' = num_requests + 1
          /\ num_failures' = IF failed THEN num_failures + 1 ELSE num_failures
          /\ last_report' = [user |-> u, status_code |-> r.status_code,
                              exception |-> r.exception, failure |-> failed]
          /\ userState' = [userState EXCEPT ![u] = IF failed THEN "stopped" ELSE "running"]
    /\ task' = [task EXCEPT ![u] = NoTask]
    /\ UNCHANGED <<attempts, num_posts>>
    /\ UNCHANGED driverVars

\* the with block of send_event: the response is marked a success on status
\* 202 and a failure otherwise; leaving the block reports the request once
\* (the request event, which on_request listens to); the task returns
ClassifyResponse(u) ==
    /\ userState[u] = "in_request"
    /\ \E r \in EventResponses :
          LET failed == IF r.status_code = HttpAccepted THEN FALSE ELSE TRUE IN
          /\ num_requests' = num_requests + 1
          /\ num_failures' = IF failed THEN num_failures + 1 ELSE num_failures
          /\ last_report' = [user |-> u, status_code |-> r.status_code,
                              exception |-> r.exception, failure |-> failed]
    /\ userState' = [userState EXCEPT ![u] = "running"]
    /\ task' = [task EXCEPT ![u] = NoTask]
    /\ UNCHANGED <<attempts, num_posts>>
    /\ UNCHANGED driverVars

\* the run time is over: a user between two tasks is stopped
StopUser(u) ==
    /\ userState[u] = "running"
    /\ userState' = [userState EXCEPT ![u] = "stopped"]
    /\ UNCHANGED <<task, attempts, num_posts, num_requests, num_failures, last_report>>
    /\ UNCHANGED driverVars

UserNext ==
    \/ \E u \in Users : OnStart(u)
    \/ \E u \in Users : SendEvent(u)
    \/ \E u \in Users : ClassifyResponse(u)
    \/ \E u \in Users : StopUser(u)

UserInit == Init /\ statsFile = NoStatsFile

UserSpec == UserInit /\ [][UserNext]_vars

-----------------------------------------------------------------------------
(* Vocabulary of the properties *)

Stages == 1..NumScenarios

Has(e, k) == \E j \in 1..Len(log) : log[j].ev = e /\ log[j].stage = k

HasVal(e, k, v) == \E j \in 1..Len(log) : log[j] = Event(e, k, v)

Count(e) == Cardinality({j \in 1..Len(log) : log[j].ev = e})

\* run_locust has been called for scenario k
RunLocustInvoked(k) == Has("launch", k) \/ Has("not_found", k)

\* check_health returned True / returned False
HealthPassed == HasVal("check_health", 0, "True")
HealthFailed == HasVal("check_health", 0, "False")

\* analyze_results returned True / False for scenario k
SlaPassed(k) == HasVal("analyze", k, "True")
SlaFailed(k) == HasVal("analyze", k, "False")

ReportWritten == Has("report", 0)

\* run_performance_test has returned to main
Returned == pc \in {"report", "final"} \/ (pc = "exited" /\ ReportWritten)

LastEvent == log[Len(log)]

-----------------------------------------------------------------------------
(* Properties *)

\* C1: when check_health returns False, run_locust is never invoked for any
\* scenario, the process has exited with a non-zero status, and check_health
\* was called exactly once.
C1_HealthFailureRunsNoStage ==
    /\ Count("check_health") <= 1
    /\ HealthFailed =>
          /\ Count("check_health") = 1
          /\ \A k \in Stages : ~RunLocustInvoked(k)
          /\ pc = "exited"
          /\ exitCode # 0

C1_Witness == HealthFailed /\ pc = "exited" /\ exitCode = 1

\* C2: once the SLA evaluation of scenario k has failed, the run goes on:
\* run_performance_test eventually returns, it returns False, and by then
\* run_locust has been invoked for every later scenario.
C2_SlaFailureDoesNotAbort ==
    \A k \in Stages :
        [](SlaFailed(k) =>
              <>(/\ Returned
                 /\ success = FALSE
                 /\ \A j \in (k + 1)..NumScenarios : RunLocustInvoked(j)))

C2_Witness ==
    /\ pc = "report"
    /\ SlaFailed(1)
    /\ \A j \in 2..NumScenarios : Has("launch", j)

\* C3: when run_performance_test has returned, the value it returned is True
\* exactly when analyze_results returned True for every scenario.
C3_OverallSuccessIsConjunction ==
    Returned => (success = TRUE <=> \A k \in Stages : SlaPassed(k))

C3_Witness ==
    /\ Returned
    /\ success = FALSE
    /\ SlaFailed(2)
    /\ \A k \in Stages \ {2} : SlaPassed(k)

\* C4 (as claimed): when the locust launcher is unavailable for scenario k, no
\* later scenario is attempted, and the outcome of the process differs from
\* the outcome of an SLA failure (exit status 1 with success false in the report).
C4_LauncherUnavailableIsFatal ==
    \A k \in Stages :
        Has("not_found", k) =>
            /\ \A j \in (k + 1)..NumScenarios : ~RunLocustInvoked(j)
            /\ (pc = "exited" /\ ReportWritten) =>
                  ~(exitCode = 1 /\ report.success = FALSE)

\* C5 (as claimed): once the loop is past scenario k, the 10 second pause has
\* been made after scenario k exactly when k is not the last scenario.
C5_PauseExactlyBetweenStages ==
    \A k \in Stages :
        (HealthPassed /\ idx > k) =>
            (HasVal("sleep", k, ToString(StabilizationSeconds)) <=> k < NumScenarios)

C7_SlaThresholds ==
    (pc = "sleep" /\ statsFile.exists) =>
        (LastEvent = Event("analyze", idx, "True")
            <=> (statsFile.failure_rate <= 10 /\ statsFile.median <= 500))

C7_Witness ==
    /\ pc = "sleep"
    /\ statsFile = [exists |-> TRUE, failure_rate |-> 10, median |-> 500]
    /\ SlaPassed(idx)

\* C8: the exit status is non-zero exactly when the health check did not pass
\* or run_performance_test returned False; when the health check passes and
\* every scenario passes its SLA the exit status is zero.
C8_ExitStatus ==
    pc = "exited" =>
        /\ exitCode # 0 <=> (~HealthPassed \/ success = FALSE)
        /\ (HealthPassed /\ \A k \in Stages : SlaPassed(k)) => exitCode = 0

C8_Witness == pc = "exited" /\ exitCode = 0 /\ \A k \in Stages : SlaPassed(k)

\* C9: the report is written at most once; when it is written every scenario
\* is over and no locust process is alive, and its success field is the value
\* run_performance_test returned; nothing of it is written before; a process
\* whose health check passed has written it when it exits, with either status.
C9_ReportWrittenOnceAtEnd ==
    /\ Count("report") <= 1
    /\ ~ReportWritten => report = None
    /\ ReportWritten =>
          /\ pc \in {"final", "exited"}
          /\ idx > NumScenarios
          /\ locustProc = 0
          /\ \A k \in Stages : RunLocustInvoked(k)
          /\ report.success = success
    /\ (pc = "exited" /\ HealthPassed) => Count("report") = 1

C9_Witness == pc = "exited" /\ exitCode = 1 /\ ReportWritten /\ report.success = FALSE

\* C10 (as claimed): the report lists the scenarios in the order they were run,
\* each entry carrying the pass/fail result of its own scenario.
C10_ReportMarksEachStage ==
    ReportWritten =>
        /\ Len(report.test_scenarios) = NumScenarios
        /\ \A k \in Stages :
              /\ report.test_scenarios[k].name = test_scenarios[k].name
              /\ "passed" \in DOMAIN report.test_scenarios[k]
              /\ report.test_scenarios[k].passed = SlaPassed(k)

\* C11 (as claimed): check_health returns True exactly when the answer has
\* status 200 and a body that parses and says the service is healthy; on every
\* other answer and on a transport error it returns False, and no exception
\* leaves it.
C11_HealthTrueIffHealthy ==
    Has("check_health", 0) =>
        /\ log[1].val \in {"True", "False"}
        /\ log[1].val = "True" <=>
              (/\ ~response.error
               /\ response.status_code = 200
               /\ response.body = "json_status_healthy")

\* C14: the fetch of the metrics changes nothing but metrics_before: whatever
\* the endpoint answers, the step leads to run_locust for the same scenario
\* with all other state as it was, the process does not end there, and
\* metrics_before is written nowhere else.
C14_MetricsFetchIsBestEffort ==
    [][/\ pc = "get_metrics" =>
            /\ pc' = "run_locust"
            /\ metrics_before' \in {"", "metrics"}
            /\ log' = Append(log, Event("get_metrics", idx, ""))
            /\ UNCHANGED <<idx, all_passed, success, statsFile, locustProc,
                           report, exitCode, response, last_analysis>>
       /\ metrics_before' # metrics_before => pc = "get_metrics"]_vars

C14_Witness ==
    /\ pc = "exited"
    /\ exitCode = 0
    /\ metrics_before = ""
    /\ Count("get_metrics") = NumScenarios

\* C15: the SLA evaluation leaves the statistics and the rest of the driver's
\* state (all but the pass flag it feeds) as they were, and evaluating the
\* statistics it evaluated last gives the result it gave last.
C15_SlaEvaluationIsPure ==
    [][pc = "analyze" =>
          /\ UNCHANGED <<statsFile, idx, success, metrics_before, locustProc,
                         report, exitCode, response>>
          /\ last_analysis'.file = statsFile
          /\ (last_analysis.done /\ last_analysis.file = statsFile) =>
                last_analysis'.passed = last_analysis.passed]_vars

C15_Witness ==
    /\ pc = "analyze"
    /\ idx > 1
    /\ last_analysis.done
    /\ last_analysis.file = statsFile
    /\ statsFile.exists

\* a scenario that did not pass: its load run failed or its SLA evaluation failed
StageFailed(k) == SlaFailed(k) \/ HasVal("exit", k, "False") \/ Has("not_found", k)

\* C17: all_passed is True when the loop starts; once it is False no step sets
\* it back to True; the value returned is False when some scenario failed.
C17_OverallSuccessIsMonotone ==
    /\ [](HealthPassed /\ Len(log) = 1 => all_passed = TRUE)
    /\ [][(HealthPassed /\ all_passed = FALSE) => all_passed' = FALSE]_vars
    /\ []((Returned /\ \E k \in Stages : StageFailed(k)) => success = FALSE)

C17_Witness ==
    /\ Returned
    /\ success = FALSE
    /\ HasVal("exit", 1, "False")
    /\ \A k \in 2..NumScenarios : SlaPassed(k)

\* C18: analyze_results and the pause happen for a scenario only right after
\* its load run returned True; after a load run that returned False (a
\* non-zero exit code or a missing launcher) the pass flag is False, the
\* scenario is neither analyzed nor followed by a pause, and the next thing
\* done is the next scenario (or the report after the last one).
C18_AnalysisAndPauseOnlyAfterSuccess ==
    \A j \in 1..Len(log) :
        /\ log[j].ev = "analyze" =>
              j > 1 /\ log[j - 1] = Event("exit", log[j].stage, "True")
        /\ log[j].ev = "sleep" =>
              j > 1 /\ log[j - 1].ev = "analyze" /\ log[j - 1].stage = log[j].stage
        /\ (log[j].ev = "not_found" \/ (log[j].ev = "exit" /\ log[j].val = "False")) =>
              /\ all_passed = FALSE
              /\ ~Has("analyze", log[j].stage)
              /\ ~Has("sleep", log[j].stage)
              /\ j < Len(log) =>
                    \/ log[j + 1] = Event("get_metrics", log[j].stage + 1, "")
                    \/ log[j].stage = NumScenarios /\ log[j + 1].ev = "report"

C18_Witness ==
    /\ HasVal("exit", 1, "False")
    /\ Has("not_found", 2)
    /\ Has("sleep", 3)
    /\ pc = "exited"

\* C19: when the statistics file is absent at the evaluation of a scenario,
\* analyze_results returns False, the pass flag is False from then on, and
\* the value returned by run_performance_test is False.
C19_MissingStatisticsFail ==
    /\ (pc = "sleep" /\ ~statsFile.exists) =>
          (SlaFailed(idx) /\ ~SlaPassed(idx) /\ all_passed = FALSE)
    /\ (last_analysis.done /\ ~last_analysis.file.exists) =>
          /\ ~last_analysis.passed
          /\ all_passed = FALSE
          /\ Returned => success = FALSE

C19_Witness ==
    /\ Returned
    /\ success = FALSE
    /\ last_analysis.done
    /\ ~last_analysis.file.exists
    /\ \A k \in Stages : HasVal("exit", k, "True")

InFlight == {u \in Users : userState[u] = "in_request"}

\* C12: every request a user makes is reported exactly once, when its
\* response is handled: the reported requests and the requests in flight add
\* up to the requests made; a report counts one request, and counts it as a
\* failure exactly when the status code is not 202, a transport error included.
C12_RequestClassifiedOnceBy202 ==
    /\ [](/\ num_requests + Cardinality(InFlight) = num_posts
          /\ num_failures <= num_requests
          /\ last_report.failure <=> (last_report.user # 0 /\ last_report.status_code # 202)
          /\ last_report.exception => last_report.failure)
    /\ [][/\ num_requests' # num_requests =>
               /\ num_requests' = num_requests + 1
               /\ num_posts' = num_posts
               /\ num_failures' = num_failures + (IF last_report'.status_code = 202 THEN 0 ELSE 1)
               /\ userState[last_report'.user] = "in_request"
          /\ num_failures' # num_failures => num_requests' # num_requests]_vars

C12_Witness ==
    /\ num_requests = MaxPosts
    /\ num_failures = 2
    /\ last_report.exception
    /\ last_report.failure

\* C13: a request that fails leaves its user running: the failure is counted
\* in the statistics, the user is not stopped by it and may start its next
\* task, no second POST is made for the same task, and a user is only ever
\* stopped between two tasks.
C13_FailureKeepsUserRunning ==
    /\ [](\A u \in Users :
            /\ attempts[u] <= 1
            /\ (userState[u] = "running" /\ num_posts < MaxPosts) => ENABLED SendEvent(u))
    /\ [][/\ num_failures' # num_failures =>
               /\ userState'[last_report'.user] = "running"
               /\ attempts'[last_report'.user] = 1
               /\ num_posts' = num_posts
               /\ num_failures' = num_failures + 1
          /\ \A u \in Users :
               (userState'[u] = "stopped" /\ userState[u] # "stopped") =>
                   (userState[u] = "running" /\ num_failures' = num_failures)]_vars

C13_Witness ==
    /\ last_report.failure
    /\ last_report.user \in Users
    /\ userState[last_report.user] = "in_request"
    /\ num_failures = 1
    /\ num_posts = 2

====
